---------------------------- MODULE Spec2Model ----------------------------
(***************************************************************************)
(* Model of the congressional-record pipeline:                             *)
(*   gen_record_urls.py  (Paginated Collector)                             *)
(*   pull_records.py     (Article Fetcher)                                 *)
(*   process_records.py  (Roster lookup and Speech Segmenter)              *)
(* Each script is a sequential program; each has its own specification.    *)
(***************************************************************************)
EXTENDS Integers, Sequences, FiniteSets, TLC

(***************************************************************************)
(* Generic helpers on sequences.                                           *)
(***************************************************************************)
RECURSIVE Concat(_)
\* concatenation of a sequence of sequences
Concat(ss) == IF ss = <<>> THEN <<>> ELSE Head(ss) \o Concat(Tail(ss))

RECURSIVE SumSeq(_)
SumSeq(ns) == IF ns = <<>> THEN 0 ELSE Head(ns) + SumSeq(Tail(ns))

Range(s) == { s[i] : i \in 1..Len(s) }

(***************************************************************************)
(*                    PAGINATED COLLECTOR (gen_record_urls.py)             *)
(***************************************************************************)

\* ---- bounds of the environment (the API's answers) ----
MaxIssues == 2          \* issues the API serves over the whole run
MaxNext == 2            \* 'next' cursors the API serves over the whole run

\* ---- program constants ----
starting_volno == 164
ending_volno == 167
FormattedText == "Formatted Text"

\* issue_no before its first assignment (the name is not bound)
Unbound == 0

VARIABLES
    c_pc,           \* position of the Collector script
    vol_no,         \* loop variable of the volume loop
    vol_response,   \* current page of the volume listing
    page,           \* page counter of the volume listing
    iss_ix,         \* position of the for-loop over the page's issues (1-based)
    issue_no,       \* issue counter used by the progress messages
    issue_info,     \* [vol_no, issueNumber, issueDate] of the issue in progress
    vol_articles,   \* rows gathered so far
    records_ix,     \* the database table
    ret,            \* which loop called proc_issue
    issue_response, \* proc_issue: current page of the issue listing
    issue_dta,      \* proc_issue: entries gathered so far
    pg_no,          \* proc_issue: page counter
    err,            \* exception that ended the script, or "none"
    nIssues,        \* environment: issues served so far (they are numbered 1..nIssues)
    nNext,          \* environment: 'next' cursors served so far
    called,         \* history: issues passed to proc_issue, in call order
    pages_seen      \* history: pages of the issue listing fetched by the current call

colVars == << c_pc, vol_no, vol_response, page, iss_ix, issue_no, issue_info,
              vol_articles, records_ix, ret, issue_response, issue_dta, pg_no,
              err, nIssues, nNext, called, pages_seen >>

\* ---- the API's data ----
Rep(t, u) == [type |-> t, url |-> u]
Article(t, reps) == [title |-> t, text |-> reps]
Section(n, arts) == [name |-> n, sectionArticles |-> arts]

ArtA == Article("title a", << Rep("PDF", "a.pdf"), Rep(FormattedText, "a.htm") >>)
ArtB == Article("title b", << Rep(FormattedText, "b.htm"), Rep("PDF", "b.pdf") >>)
ArtNoText == Article("title c", << Rep("PDF", "c.pdf") >>)

\* the bodies ("articles" field) an issue-listing page can carry
PageBodies ==
    { << Section("House Section", << ArtA, ArtB >>), Section("Senate Section", << ArtB >>) >>,
      << Section("Daily Digest", << >>), Section("Senate Section", << ArtA >>) >>,
      << Section("House Section", << ArtB, ArtNoText, ArtA >>) >> }

Issue(k) == [issueNumber |-> k, issueDate |-> "date", url |-> k]

\* pages the volume listing can answer with, given what was served so far
VolResponses(nI, nN) ==
    { [next |-> n, dailyCongressionalRecord |-> [i \in 1..k |-> Issue(nI + i)]] :
        n \in (IF nN < MaxNext THEN BOOLEAN ELSE {FALSE}),
        k \in 0..(MaxIssues - nI) }

\* pages the issue listing can answer with
IssueResponses(nN) ==
    { [next |-> n, articles |-> b] :
        n \in (IF nN < MaxNext THEN BOOLEAN ELSE {FALSE}),
        b \in PageBodies }

\* rows that may already be in records_ix (CREATE TABLE IF NOT EXISTS)
OldRow == << 163, 1, "date", "House Section", "old title", "old.htm" >>
PriorTables == { << >>, << OldRow >> }

\* ---- proc_issue: one page ----
HasFormattedText(article) ==
    \E i \in 1..Len(article.text) : article.text[i].type = FormattedText

\* next(item for item in article["text"] if item["type"] == "Formatted Text")
FirstFormattedText(article) ==
    LET i == CHOOSE i \in 1..Len(article.text) :
                 /\ article.text[i].type = FormattedText
                 /\ \A j \in 1..(i-1) : article.text[j].type # FormattedText
    IN article.text[i]

ArticleEntry(section, article) ==
    << section.name, article.title, FirstFormattedText(article).url >>

\* the inner two for-loops over one page, when no article raises
SectionEntries(section) ==
    [a \in 1..Len(section.sectionArticles) |->
        ArticleEntry(section, section.sectionArticles[a])]

PageEntries(sections) ==
    Concat([s \in 1..Len(sections) |-> SectionEntries(sections[s])])

\* next() raises StopIteration on some article of the page
PageRaises(sections) ==
    \E s \in 1..Len(sections) : \E a \in 1..Len(sections[s].sectionArticles) :
        ~HasFormattedText(sections[s].sectionArticles[a])

InitCollector ==
    /\ c_pc = "vol_req"
    /\ vol_no = starting_volno
    /\ vol_response = [next |-> FALSE, dailyCongressionalRecord |-> << >>]
    /\ page = 1
    /\ iss_ix = 1
    /\ issue_no = Unbound
    /\ issue_info = << >>
    /\ vol_articles = << >>
    /\ records_ix \in PriorTables
    /\ ret = "none"
    /\ issue_response = [next |-> FALSE, articles |-> << >>]
    /\ issue_dta = << >>
    /\ pg_no = 1
    /\ err = "none"
    /\ nIssues = 0
    /\ nNext = 0
    /\ called = << >>
    /\ pages_seen = << >>

Bump(n, resp) == IF resp.next THEN n + 1 ELSE n

\* lines 94-97: request the first page of the volume listing
VolRequest ==
    /\ c_pc = "vol_req"
    /\ \E resp \in VolResponses(nIssues, nNext) :
         /\ vol_response' = resp
         /\ nIssues' = nIssues + Len(resp.dailyCongressionalRecord)
         /\ nNext' = Bump(nNext, resp)
    /\ page' = 1
    /\ c_pc' = "vol_while"
    /\ UNCHANGED << vol_no, iss_ix, issue_no, issue_info, vol_articles, records_ix,
                    ret, issue_response, issue_dta, pg_no, err, called, pages_seen >>

\* lines 100-104: the page has a 'next' cursor: enter the while body
EnterPage ==
    /\ c_pc = "vol_while"
    /\ vol_response.next
    /\ issue_no' = 1
    /\ iss_ix' = 1
    /\ c_pc' = "vol_for"
    /\ UNCHANGED << vol_no, vol_response, page, issue_info, vol_articles, records_ix,
                    ret, issue_response, issue_dta, pg_no, err, nIssues, nNext, called, pages_seen >>

\* lines 100, 121: no 'next' cursor: leave the while loop for the terminal page
EnterLastPage ==
    /\ c_pc = "vol_while"
    /\ ~vol_response.next
    /\ iss_ix' = 1
    /\ c_pc' = "last_for"
    /\ UNCHANGED << vol_no, vol_response, page, issue_no, issue_info, vol_articles,
                    records_ix, ret, issue_response, issue_dta, pg_no, err, nIssues,
                    nNext, called, pages_seen >>

\* lines 104-107 and 121-124, then line 41-43: take the next issue of the page
\* and call proc_issue, which requests the first page of the issue listing
IssueStart ==
    /\ c_pc \in {"vol_for", "last_for"}
    /\ iss_ix <= Len(vol_response.dailyCongressionalRecord)
    /\ LET issue == vol_response.dailyCongressionalRecord[iss_ix] IN
         /\ issue_info' = << vol_no, issue.issueNumber, issue.issueDate >>
         /\ called' = Append(called, issue.url)
    /\ \E resp \in IssueResponses(nNext) :
         /\ issue_response' = resp
         /\ nNext' = Bump(nNext, resp)
         /\ pages_seen' = << resp.articles >>
    /\ issue_dta' = << >>
    /\ pg_no' = 1
    /\ ret' = c_pc
    /\ c_pc' = "pi_while"
    /\ UNCHANGED << vol_no, vol_response, page, iss_ix, issue_no, vol_articles,
                    records_ix, err, nIssues >>

\* lines 45-59: a page with a 'next' cursor: gather it and request the next page
ProcIssuePage ==
    /\ c_pc = "pi_while"
    /\ issue_response.next
    /\ IF PageRaises(issue_response.articles)
       THEN /\ err' = "StopIteration"
            /\ c_pc' = "crashed"
            /\ UNCHANGED << issue_response, issue_dta, pg_no, nNext, pages_seen >>
       ELSE /\ issue_dta' = issue_dta \o PageEntries(issue_response.articles)
            /\ \E resp \in IssueResponses(nNext) :
                 /\ issue_response' = resp
                 /\ nNext' = Bump(nNext, resp)
                 /\ pages_seen' = Append(pages_seen, resp.articles)
            /\ pg_no' = pg_no + 1
            /\ UNCHANGED << err, c_pc >>
    /\ UNCHANGED << vol_no, vol_response, page, iss_ix, issue_no, issue_info,
                    vol_articles, records_ix, ret, nIssues, called >>

\* mutant of ProcIssueLastPage: an article without Formatted Text is skipped
KeepWithText(section) ==
    [section EXCEPT !.sectionArticles = SelectSeq(@, HasFormattedText)]

ProcIssueLastPage_SkipsMissing ==
    /\ c_pc = "pi_while"
    /\ ~issue_response.next
    /\ issue_dta' = issue_dta \o
          PageEntries([s \in 1..Len(issue_response.articles) |->
                          KeepWithText(issue_response.articles[s])])
    /\ c_pc' = "pi_ret"
    /\ UNCHANGED << vol_no, vol_response, page, iss_ix, issue_no, issue_info,
                    vol_articles, records_ix, ret, issue_response, pg_no,
                    err, nIssues, nNext, called, pages_seen >>

\* mutant of ProcIssueLastPage: the terminal page's items are dropped
ProcIssueLastPage_DropsTerminal ==
    /\ c_pc = "pi_while"
    /\ ~issue_response.next
    /\ c_pc' = "pi_ret"
    /\ UNCHANGED << vol_no, vol_response, page, iss_ix, issue_no, issue_info,
                    vol_articles, records_ix, ret, issue_response, issue_dta, pg_no,
                    err, nIssues, nNext, called, pages_seen >>

\* lines 62-72: the page without a 'next' cursor: gather it and return
ProcIssueLastPage ==
    /\ c_pc = "pi_while"
    /\ ~issue_response.next
    /\ IF PageRaises(issue_response.articles)
       THEN /\ err' = "StopIteration"
            /\ c_pc' = "crashed"
            /\ UNCHANGED issue_dta
       ELSE /\ issue_dta' = issue_dta \o PageEntries(issue_response.articles)
            /\ c_pc' = "pi_ret"
            /\ UNCHANGED err
    /\ UNCHANGED << vol_no, vol_response, page, iss_ix, issue_no, issue_info,
                    vol_articles, records_ix, ret, issue_response, pg_no, nIssues,
                    nNext, called, pages_seen >>

\* issue_articles = [issue_info + article_info for article_info in issue_articles]
IssueRows(info, dta) == [i \in 1..Len(dta) |-> info \o dta[i]]

\* lines 108-111: back in the while body
IssueDone ==
    /\ c_pc = "pi_ret"
    /\ ret = "vol_for"
    /\ vol_articles' = vol_articles \o IssueRows(issue_info, issue_dta)
    /\ issue_no' = issue_no + 1
    /\ iss_ix' = iss_ix + 1
    /\ c_pc' = "vol_for"
    /\ UNCHANGED << vol_no, vol_response, page, issue_info, records_ix, ret,
                    issue_response, issue_dta, pg_no, err, nIssues, nNext, called, pages_seen >>

\* lines 125-127: back in the terminal-page loop; the message reads issue_no
LastIssueDone ==
    /\ c_pc = "pi_ret"
    /\ ret = "last_for"
    /\ vol_articles' = vol_articles \o IssueRows(issue_info, issue_dta)
    /\ IF issue_no = Unbound
       THEN /\ err' = "NameError"
            /\ c_pc' = "crashed"
            /\ UNCHANGED iss_ix
       ELSE /\ iss_ix' = iss_ix + 1
            /\ c_pc' = "last_for"
            /\ UNCHANGED err
    /\ UNCHANGED << vol_no, vol_response, page, issue_no, issue_info, records_ix, ret,
                    issue_response, issue_dta, pg_no, nIssues, nNext, called, pages_seen >>

\* lines 114-118: the page's issues are done: request the next page
NextPage ==
    /\ c_pc = "vol_for"
    /\ iss_ix > Len(vol_response.dailyCongressionalRecord)
    /\ \E resp \in VolResponses(nIssues, nNext) :
         /\ vol_response' = resp
         /\ nIssues' = nIssues + Len(resp.dailyCongressionalRecord)
         /\ nNext' = Bump(nNext, resp)
    /\ page' = page + 1
    /\ c_pc' = "vol_while"
    /\ UNCHANGED << vol_no, iss_ix, issue_no, issue_info, vol_articles, records_ix,
                    ret, issue_response, issue_dta, pg_no, err, called, pages_seen >>

\* line 91: the terminal page's issues are done: next volume, or leave the loop
NextVolume ==
    /\ c_pc = "last_for"
    /\ iss_ix > Len(vol_response.dailyCongressionalRecord)
    /\ IF vol_no < ending_volno
       THEN /\ vol_no' = vol_no + 1
            /\ c_pc' = "vol_req"
       ELSE /\ c_pc' = "load"
            /\ UNCHANGED vol_no
    /\ UNCHANGED << vol_response, page, iss_ix, issue_no, issue_info, vol_articles,
                    records_ix, ret, issue_response, issue_dta, pg_no, err, nIssues,
                    nNext, called, pages_seen >>

\* lines 131-137: executemany + commit
LoadDB ==
    /\ c_pc = "load"
    /\ records_ix' = records_ix \o vol_articles
    /\ c_pc' = "done"
    /\ UNCHANGED << vol_no, vol_response, page, iss_ix, issue_no, issue_info,
                    vol_articles, ret, issue_response, issue_dta, pg_no, err, nIssues,
                    nNext, called, pages_seen >>

(***************************************************************************)
(*                    ARTICLE FETCHER (pull_records.py)                    *)
(***************************************************************************)

\* ---- bounds ----
MaxRows == 3            \* rows of records_ix read by the Fetcher

\* ---- program constants ----
root_folder == "scraped_articles"
\* the sentinel, as a one-piece path and as a one-piece text
ErrorWhenPulling == << "Error when pulling" >>

VARIABLES
    f_pc,           \* position of the Fetcher script
    record_df,      \* the rows read from records_ix
    req_articles,   \* the in-scope rows
    folders,        \* directories created so far
    files,          \* files written so far: path -> content
    art_ix,         \* row proc_article is applied to next (1-based)
    article_fpath,  \* values returned by proc_article so far
    index_csv,      \* the rows of required_articles_index.csv, once written
    f_err,          \* exception that ended the script, or "none"
    fetch_failed    \* history: for each row processed, whether its fetch or clean raised

fetVars == << f_pc, record_df, req_articles, folders, files, art_ix, article_fpath,
              index_csv, f_err, fetch_failed >>

\* titles are sequences of pieces; VolSuffix stands for a match of
\* "; congressional record vol. [0-9]+, no. [0-9]+"
VolSuffix == "; congressional record vol. 164, no. 1"

\* config["house_sen_proc_terms"]: the pieces the procedural pattern matches
proc_terms == { "adjournment" }

\* str.contains(proc_terms)
ContainsProcTerm(title) == \E i \in 1..Len(title) : title[i] \in proc_terms

Locator(v, i, sec, t, u) ==
    [volume |-> v, issue |-> i, section |-> sec, article_title_lower |-> t,
     article_url |-> u]

Locators ==
    { Locator(164, 1, "House Section", << "the bill" >>, "u1"),
      Locator(164, 1, "Senate Section", << "tax", "/", "trade", VolSuffix >>, "u2"),
      Locator(165, 2, "House Section", << "adjournment" >>, "u3"),
      Locator(165, 2, "Daily Digest", << "the bill" >>, "u4") }

RECURSIVE SeqsUpTo(_, _)
\* the sequences over S of length at most n
SeqsUpTo(S, n) ==
    IF n = 0 THEN { << >> }
    ELSE LET shorter == SeqsUpTo(S, n - 1)
         IN shorter \cup { Append(q, x) : q \in shorter, x \in S }

\* lines 21-25: house_section_mask | senate_section_mask
InScope(row) ==
    /\ row.section \in {"House Section", "Senate Section"}
    /\ ~ContainsProcTerm(row.article_title_lower)

\* lines 63-65: re.sub(op_fclean, "", title).replace("/", " ") + ".txt"
OpFname(title) ==
    LET cut == SelectSeq(title, LAMBDA x : x # VolSuffix)
    IN [i \in 1..Len(cut) |-> IF cut[i] = "/" THEN " " ELSE cut[i]] \o << ".txt" >>

\* lines 67-68: os.path.join(rootpath, volume, issue, section, op_fname)
OpFpath(row) ==
    << root_folder, row.volume, row.issue, row.section >> \o OpFname(row.article_title_lower)

\* the raw responses of the article server, and the text left by the cleaning
header_txt == "From the Congressional Record Online through the Government Publishing Office [www.gpo.gov]"
RawResponses ==
    { << "<html>", header_txt, "[Pages H1-H2]", "[[Page H1]]", "Mr. AB. text" >> }

\* lines 73-80: BeautifulSoup(...).text, then the header and page marks removed
CleanText(raw) ==
    SelectSeq(raw, LAMBDA x : x \notin {"<html>", header_txt, "[Pages H1-H2]", "[[Page H1]]"})

FetcherIdle ==
    /\ f_pc = "idle"
    /\ record_df = << >>
    /\ req_articles = << >>
    /\ folders = { }
    /\ files = << >>
    /\ art_ix = 1
    /\ article_fpath = << >>
    /\ index_csv = << >>
    /\ f_err = "none"
    /\ fetch_failed = << >>

\* write content under path (files is kept as a sequence of [path, content],
\* a later write to the same path replacing the earlier one)
WriteFile(fs, path, content) ==
    SelectSeq(fs, LAMBDA f : f.path # path) \o << [path |-> path, content |-> content] >>

\* lines 11-43: read the table, filter it, create the folders
ReadAndFilter ==
    /\ f_pc = "start"
    /\ req_articles' = SelectSeq(record_df, InScope)
    /\ folders' = { << root_folder, r.volume, r.issue, r.section >> :
                      r \in Range(SelectSeq(record_df, InScope)) }
    /\ f_pc' = "session"
    /\ UNCHANGED << record_df, files, art_ix, article_fpath, index_csv, f_err,
                    fetch_failed >>

\* lines 94-95: the initial request on the first row's url, outside any try
InitSession ==
    /\ f_pc = "session"
    /\ \E ok \in BOOLEAN :
         IF req_articles = << >>
         THEN f_err' = "KeyError" /\ f_pc' = "crashed"
         ELSE IF ok THEN f_err' = f_err /\ f_pc' = "apply"
              ELSE f_err' = "RequestException" /\ f_pc' = "crashed"
    /\ UNCHANGED << record_df, req_articles, folders, files, art_ix, article_fpath,
                    index_csv, fetch_failed >>

\* mutant of ProcArticle: a failing fetch is not caught and ends the batch
ProcArticle_Aborts ==
    /\ f_pc = "apply"
    /\ art_ix <= Len(req_articles)
    /\ f_err' = "RequestException"
    /\ f_pc' = "crashed"
    /\ fetch_failed' = Append(fetch_failed, TRUE)
    /\ UNCHANGED << record_df, req_articles, folders, files, art_ix, article_fpath,
                    index_csv >>

\* lines 46-91: proc_article on the next row
ProcArticle ==
    /\ f_pc = "apply"
    /\ art_ix <= Len(req_articles)
    /\ LET row == req_articles[art_ix] IN
         \/ \E raw \in RawResponses :
              /\ files' = WriteFile(files, OpFpath(row), CleanText(raw))
              /\ article_fpath' = Append(article_fpath, OpFpath(row))
              /\ fetch_failed' = Append(fetch_failed, FALSE)
         \/ /\ files' = WriteFile(files, ErrorWhenPulling, ErrorWhenPulling)
            /\ article_fpath' = Append(article_fpath, ErrorWhenPulling)
            /\ fetch_failed' = Append(fetch_failed, TRUE)
    /\ art_ix' = art_ix + 1
    /\ UNCHANGED << f_pc, record_df, req_articles, folders, index_csv, f_err >>

\* lines 98-101: the column is assigned and the index written
SaveIndex ==
    /\ f_pc = "apply"
    /\ art_ix > Len(req_articles)
    /\ index_csv' = [i \in 1..Len(req_articles) |->
                        [row |-> req_articles[i], article_fpath |-> article_fpath[i]]]
    /\ f_pc' = "done"
    /\ UNCHANGED << record_df, req_articles, folders, files, art_ix, article_fpath,
                    f_err, fetch_failed >>

(***************************************************************************)
(*        ROSTER LOOKUP AND SPEECH SEGMENTER (process_records.py)          *)
(* Texts are sequences of one-character strings.                           *)
(***************************************************************************)

\* ---- bounds ----
MaxChunks == 4          \* pieces an article text is put together from
MaxRosterRows == 3      \* rows of congressional_members.csv
MaxSplitLen == 4        \* segments of a hand-made split

\* ---- program constants ----
MinNameLen == 2         \* the {2,} of regex_split_pattern
op_rootdir == "parsed_records"
NotFound == "Not Found"
Ambiguous == "Ambiguous"

UpperAlpha == << "A", "B", "C", "D", "E", "F", "G", "H", "I", "J", "K", "L", "M", "N", "O", "P", "Q", "R", "S", "T", "U", "V", "W", "X", "Y", "Z" >>
LowerAlpha == << "a", "b", "c", "d", "e", "f", "g", "h", "i", "j", "k", "l", "m", "n", "o", "p", "q", "r", "s", "t", "u", "v", "w", "x", "y", "z" >>
Whitespace == { " ", "\n", "\t" }

TheSPEAKER == << "T", "h", "e", " ", "S", "P", "E", "A", "K", "E", "R" >>
MrDot == << "M", "r", ".", " " >>
MsDot == << "M", "s", ".", " " >>
Miss == << "M", "i", "s", "s", " " >>

\* ---- str methods ----
ToLowerChar(c) ==
    IF \E i \in 1..Len(UpperAlpha) : UpperAlpha[i] = c
    THEN LowerAlpha[CHOOSE i \in 1..Len(UpperAlpha) : UpperAlpha[i] = c]
    ELSE c

\* str.lower()
Lower(str) == [i \in 1..Len(str) |-> ToLowerChar(str[i])]

HasPrefixAt(str, i, lit) ==
    /\ i + Len(lit) - 1 <= Len(str)
    /\ \A k \in 1..Len(lit) : str[i + k - 1] = lit[k]

RECURSIVE ReplaceAll(_, _, _)
\* str.replace(old, new): every non-overlapping occurrence, left to right
ReplaceAll(str, old, new) ==
    IF str = << >> THEN << >>
    ELSE IF HasPrefixAt(str, 1, old)
         THEN new \o ReplaceAll(SubSeq(str, Len(old) + 1, Len(str)), old, new)
         ELSE << Head(str) >> \o ReplaceAll(Tail(str), old, new)

RECURSIVE LStrip(_)
LStrip(str) ==
    IF str # << >> /\ Head(str) \in Whitespace THEN LStrip(Tail(str)) ELSE str

RECURSIVE RStrip(_)
RStrip(str) ==
    IF str # << >> /\ str[Len(str)] \in Whitespace
    THEN RStrip(SubSeq(str, 1, Len(str) - 1))
    ELSE str

\* str.strip()
Strip(str) == RStrip(LStrip(str))

RECURSIVE ReSubSpaces(_)
\* re.sub(r"\s+", " ", text)
ReSubSpaces(text) ==
    IF text = << >> THEN << >>
    ELSE IF Head(text) \in Whitespace
         THEN << " " >> \o ReSubSpaces(LStrip(Tail(text)))
         ELSE << Head(text) >> \o ReSubSpaces(Tail(text))

\* ---- regex_split_pattern ----
\* the class [A-Z \-]
NameClass(c) == c \in Range(UpperAlpha) \/ c = " " \/ c = "-"

RECURSIVE ClassRun(_, _)
\* length of the longest run of class characters that starts at position j
ClassRun(str, j) ==
    IF j <= Len(str) /\ NameClass(str[j]) THEN 1 + ClassRun(str, j + 1) ELSE 0

\* length of the match of  <honorific>[A-Z \-]{2,}  at position i, or 0
TitledLen(str, i, honorific) ==
    IF HasPrefixAt(str, i, honorific) /\ ClassRun(str, i + Len(honorific)) >= MinNameLen
    THEN Len(honorific) + ClassRun(str, i + Len(honorific))
    ELSE 0

\* length of the match of the pattern at position i, or 0 (alternatives in order)
MatchLenAt(str, i) ==
    IF HasPrefixAt(str, i, TheSPEAKER) THEN Len(TheSPEAKER)
    ELSE IF TitledLen(str, i, MrDot) > 0 THEN TitledLen(str, i, MrDot)
    ELSE IF TitledLen(str, i, MsDot) > 0 THEN TitledLen(str, i, MsDot)
    ELSE TitledLen(str, i, Miss)

\* re.search(regex_split_pattern, s)
ReSearch(str) == \E i \in 1..Len(str) : MatchLenAt(str, i) > 0

RECURSIVE ReSplitFrom_NonCapturing(_, _)
\* mutant of ReSplitFrom: the pattern has no capturing group, the matches are dropped
ReSplitFrom_NonCapturing(str, pos) ==
    LET starts == { i \in pos..Len(str) : MatchLenAt(str, i) > 0 }
    IN IF starts = { } THEN << SubSeq(str, pos, Len(str)) >>
       ELSE LET i == CHOOSE x \in starts : \A y \in starts : x <= y
                n == MatchLenAt(str, i)
            IN << SubSeq(str, pos, i - 1) >> \o ReSplitFrom_NonCapturing(str, i + n)

RECURSIVE ReSplitFrom(_, _)
\* re.split with the capturing pattern, from position pos on
ReSplitFrom(str, pos) ==
    LET starts == { i \in pos..Len(str) : MatchLenAt(str, i) > 0 }
    IN IF starts = { } THEN << SubSeq(str, pos, Len(str)) >>
       ELSE LET i == CHOOSE x \in starts : \A y \in starts : x <= y
                n == MatchLenAt(str, i)
            IN << SubSeq(str, pos, i - 1), SubSeq(str, i, i + n - 1) >>
               \o ReSplitFrom(str, i + n)

ReSplit(str) == ReSplitFrom(str, 1)

VARIABLES
    s_pc,                   \* position of the Segmenter script
    speaker_mapping,        \* congressional_members.csv: rows [last_name, chamber, partyName]
    lname_tbl,              \* speaker_lname_mapping while it is a table
    speaker_lname_mapping,  \* speaker_lname_mapping once it is the dict
    article_text,           \* parse_articles: content of the article file
    article_split,
    speaker_ixs,
    speech_ixs,
    undefined_ixs,
    article_speeches,
    parsed_fpath,           \* value returned by parse_articles
    json_files,             \* files written under parsed_records: path -> content
    parsed_index            \* the parsed_fpaths column of parsed_records_index.csv

segVars == << s_pc, speaker_mapping, lname_tbl, speaker_lname_mapping, article_text,
              article_split, speaker_ixs, speech_ixs, undefined_ixs, article_speeches,
              parsed_fpath, json_files, parsed_index >>

\* ---- the roster table (lines 118-125) ----
RosterRow(n, c, p) == [last_name |-> n, chamber |-> c, partyName |-> p]

\* mutant of DropDuplicates: the duplicates are not dropped
DropDuplicates_KeepsAll(rows) == rows

\* DataFrame.drop_duplicates(): the first of equal rows is kept, order kept
DropDuplicates(rows) ==
    LET keep == { i \in 1..Len(rows) : \A j \in 1..(i-1) : rows[j] # rows[i] }
        RECURSIVE Pick(_)
        Pick(i) == IF i > Len(rows) THEN << >>
                   ELSE (IF i \in keep THEN << rows[i] >> ELSE << >>) \o Pick(i + 1)
    IN Pick(1)

\* groupby(["last_name", "chamber"]).transform("count")
GroupCount(rows, i) ==
    Cardinality({ j \in 1..Len(rows) :
                    /\ rows[j].last_name = rows[i].last_name
                    /\ rows[j].chamber = rows[i].chamber })

\* line 123: .loc[last_name_counts > 1, "partyName"] = "Ambiguous"
Relabelled(rows) ==
    [i \in 1..Len(rows) |->
        IF rows[i].last_name_counts > 1
        THEN [rows[i] EXCEPT !.partyName = Ambiguous]
        ELSE rows[i]]

\* lines 124-125: {speaker.lower(): party for ...}: a later row replaces an earlier one
LnameDict(rows) ==
    [k \in { Lower(rows[i].last_name) : i \in 1..Len(rows) } |->
        LET last == CHOOSE i \in 1..Len(rows) :
                        /\ Lower(rows[i].last_name) = k
                        /\ \A j \in (i+1)..Len(rows) : Lower(rows[j].last_name) # k
        IN rows[last].partyName]

\* lines 118-119
SelectAndDropDuplicates ==
    /\ s_pc = "roster"
    /\ lname_tbl' = DropDuplicates(speaker_mapping)
    /\ s_pc' = "count"
    /\ UNCHANGED << speaker_mapping, speaker_lname_mapping, article_text, article_split,
                    speaker_ixs, speech_ixs, undefined_ixs, article_speeches,
                    parsed_fpath, json_files, parsed_index >>

\* lines 120-122
CountLastNames ==
    /\ s_pc = "count"
    /\ lname_tbl' = [i \in 1..Len(lname_tbl) |->
                        [last_name |-> lname_tbl[i].last_name,
                         chamber |-> lname_tbl[i].chamber,
                         partyName |-> lname_tbl[i].partyName,
                         last_name_counts |-> GroupCount(lname_tbl, i)]]
    /\ s_pc' = "relabel"
    /\ UNCHANGED << speaker_mapping, speaker_lname_mapping, article_text, article_split,
                    speaker_ixs, speech_ixs, undefined_ixs, article_speeches,
                    parsed_fpath, json_files, parsed_index >>

\* line 123
RelabelAmbiguous ==
    /\ s_pc = "relabel"
    /\ lname_tbl' = Relabelled(lname_tbl)
    /\ s_pc' = "dict"
    /\ UNCHANGED << speaker_mapping, speaker_lname_mapping, article_text, article_split,
                    speaker_ixs, speech_ixs, undefined_ixs, article_speeches,
                    parsed_fpath, json_files, parsed_index >>

\* lines 124-125
BuildDict ==
    /\ s_pc = "dict"
    /\ speaker_lname_mapping' = LnameDict(lname_tbl)
    /\ s_pc' = "read"
    /\ UNCHANGED << speaker_mapping, lname_tbl, article_text, article_split,
                    speaker_ixs, speech_ixs, undefined_ixs, article_speeches,
                    parsed_fpath, json_files, parsed_index >>

\* ---- parse_articles (lines 43-116); list indices are 0-based as in the code ----
At(split, ix) == split[ix + 1]

IndexRange(split) == 0..(Len(split) - 1)

\* line 68
SpeakerIxs(split) ==
    LET RECURSIVE Scan(_)
        Scan(i) == IF i >= Len(split) THEN << >>
                   ELSE (IF ReSearch(At(split, i)) THEN << i >> ELSE << >>) \o Scan(i + 1)
    IN Scan(0)

\* line 69
SpeechIxs(spk) == [k \in 1..Len(spk) |-> spk[k] + 1]

\* mutant of UndefinedIxs: the leading segment is left out
UndefinedIxs_SkipsFirst(split, spk, spch) ==
    LET RECURSIVE Scan(_)
        Scan(i) == IF i >= Len(split) THEN << >>
                   ELSE (IF i \notin Range(spk \o spch) THEN << i >> ELSE << >>)
                        \o Scan(i + 1)
    IN Scan(1)

\* lines 70-71
UndefinedIxs(split, spk, spch) ==
    LET RECURSIVE Scan(_)
        Scan(i) == IF i >= Len(split) THEN << >>
                   ELSE (IF i \notin Range(spk \o spch) THEN << i >> ELSE << >>)
                        \o Scan(i + 1)
    IN Scan(0)

\* lines 74-78: the five checks of a classification
Checks(split, spk, spch, und) ==
    [ix_len |-> Len(spk \o spch \o und) = Len(split),
     speaker |-> Range(spk) \subseteq IndexRange(split),
     speech |-> Range(spch) \subseteq IndexRange(split),
     undefined |-> Range(und) \subseteq IndexRange(split),
     correspond |-> Len(spk) = Len(spch)]

ix_len_check == Checks(article_split, speaker_ixs, speech_ixs, undefined_ixs).ix_len
speaker_ixs_check == Checks(article_split, speaker_ixs, speech_ixs, undefined_ixs).speaker
speech_ixs_check == Checks(article_split, speaker_ixs, speech_ixs, undefined_ixs).speech
undefined_ixs_check == Checks(article_split, speaker_ixs, speech_ixs, undefined_ixs).undefined
speaker_speech_correspond_check ==
    Checks(article_split, speaker_ixs, speech_ixs, undefined_ixs).correspond

\* the five failure strings (lines 81-89), each as a one-piece value
ErrSplitting == << "Error in splitting attribution. Total number of indices greater than splits" >>
ErrSpeech == << "Error in speech attribution. Speech index not in index range" >>
ErrSpeaker == << "Error in speaker attribution. Speaker index not in index range" >>
ErrUndefined == << "Error in undefined text attribution. Indices not in index range" >>
ErrCorrespond == << "Error in speaker-speech correspondence. Speaker index does not match speech index" >>
ValidationErrors == { ErrSplitting, ErrSpeech, ErrSpeaker, ErrUndefined, ErrCorrespond }

NoFailure == << >>

\* mutant of FailureOf: the speech-index check is tested before the count check
FailureOf_SpeechCheckFirst(ch) ==
    IF ~ch.speech THEN ErrSpeech
    ELSE IF ~ch.ix_len THEN ErrSplitting
    ELSE IF ~ch.speaker THEN ErrSpeaker
    ELSE IF ~ch.undefined THEN ErrUndefined
    ELSE IF ~ch.correspond THEN ErrCorrespond
    ELSE NoFailure

\* lines 80-89: the string returned by the first failing check, if any
FailureOf(ch) ==
    IF ~ch.ix_len THEN ErrSplitting
    ELSE IF ~ch.speech THEN ErrSpeech
    ELSE IF ~ch.speaker THEN ErrSpeaker
    ELSE IF ~ch.undefined THEN ErrUndefined
    ELSE IF ~ch.correspond THEN ErrCorrespond
    ELSE NoFailure

FirstFailure ==
    FailureOf(Checks(article_split, speaker_ixs, speech_ixs, undefined_ixs))

\* lines 92-97
get_party(speaker, mapping) ==
    LET procced_speaker ==
            Strip(ReplaceAll(ReplaceAll(Lower(speaker),
                    << "m", "r", "." >>, << >>), << "m", "s", "." >>, << >>))
    IN IF procced_speaker \in DOMAIN mapping THEN mapping[procced_speaker] ELSE NotFound

\* lines 18-41: the NLP pipeline is a black box; it yields the lemma groups of
\* the text, or the error string when it raises
proc_speech(speech_text, nlp_ok) ==
    IF nlp_ok THEN << "lemmas of" >> \o speech_text
    ELSE << "Error with NLP parsing" >>

\* the article file parse_articles is applied to, and its output path
\* (lines 109-111)
ArticleFpath == << "scraped_articles", 164, 1, "House Section", "the bill", ".txt" >>
OpFpathJson(fpath) ==
    << op_rootdir >> \o
    [i \in 1..(Len(fpath) - 4) |-> IF fpath[i + 4] = ".txt" THEN ".json" ELSE fpath[i + 4]]

\* lines 61-65: read the file, collapse the whitespace, split
ReadAndSplit(texts) ==
    /\ s_pc = "read"
    /\ \E text \in texts :
         /\ article_text' = text
         /\ article_split' = ReSplit(ReSubSpaces(text))
    /\ s_pc' = "classify"
    /\ UNCHANGED << speaker_mapping, lname_tbl, speaker_lname_mapping,
                    speaker_ixs, speech_ixs, undefined_ixs, article_speeches,
                    parsed_fpath, json_files, parsed_index >>

\* lines 67-71
Classify ==
    /\ s_pc = "classify"
    /\ speaker_ixs' = SpeakerIxs(article_split)
    /\ speech_ixs' = SpeechIxs(SpeakerIxs(article_split))
    /\ undefined_ixs' = UndefinedIxs(article_split, SpeakerIxs(article_split),
                                     SpeechIxs(SpeakerIxs(article_split)))
    /\ s_pc' = "validate"
    /\ UNCHANGED << speaker_mapping, lname_tbl, speaker_lname_mapping, article_text,
                    article_split, article_speeches, parsed_fpath, json_files,
                    parsed_index >>

\* lines 73-89: on the first failing check return its string
Validate ==
    /\ s_pc = "validate"
    /\ IF FirstFailure # NoFailure
       THEN parsed_fpath' = FirstFailure /\ s_pc' = "returned"
       ELSE parsed_fpath' = parsed_fpath /\ s_pc' = "build"
    /\ UNCHANGED << speaker_mapping, lname_tbl, speaker_lname_mapping, article_text,
                    article_split, speaker_ixs, speech_ixs, undefined_ixs,
                    article_speeches, json_files, parsed_index >>

\* zip(speaker_ixs, speech_ixs)
ZipLen(a, b) == IF Len(a) <= Len(b) THEN Len(a) ELSE Len(b)

\* lines 99-102
BuildSpeeches ==
    /\ s_pc = "build"
    /\ \E nlp_ok \in BOOLEAN :
         article_speeches' =
            [k \in 1..ZipLen(speaker_ixs, speech_ixs) |->
                [speaker |-> At(article_split, speaker_ixs[k]),
                 party |-> get_party(At(article_split, speaker_ixs[k]),
                                     speaker_lname_mapping),
                 speech |-> proc_speech(At(article_split, speech_ixs[k]), nlp_ok)]]
    /\ s_pc' = "filter"
    /\ UNCHANGED << speaker_mapping, lname_tbl, speaker_lname_mapping, article_text,
                    article_split, speaker_ixs, speech_ixs, undefined_ixs,
                    parsed_fpath, json_files, parsed_index >>

\* speech["speaker"].lower().strip() != "the speaker"
NotTheSpeaker(speech) == Strip(Lower(speech.speaker)) # Lower(TheSPEAKER)

\* mutant of RemoveSpeaker: nothing is removed
RemoveSpeaker_KeepsAll ==
    /\ s_pc = "filter"
    /\ s_pc' = "write"
    /\ UNCHANGED << speaker_mapping, lname_tbl, speaker_lname_mapping, article_text,
                    article_split, speaker_ixs, speech_ixs, undefined_ixs,
                    article_speeches, parsed_fpath, json_files, parsed_index >>

\* mutant of RemoveSpeaker: the records before the first presiding-officer
\* record are dropped with it
RemoveSpeaker_DropsEarlier ==
    /\ s_pc = "filter"
    /\ article_speeches' =
          IF \E k \in 1..Len(article_speeches) : ~NotTheSpeaker(article_speeches[k])
          THEN LET f == CHOOSE k \in 1..Len(article_speeches) :
                            /\ ~NotTheSpeaker(article_speeches[k])
                            /\ \A j \in 1..(k-1) : NotTheSpeaker(article_speeches[j])
               IN SelectSeq(SubSeq(article_speeches, f, Len(article_speeches)),
                            NotTheSpeaker)
          ELSE article_speeches
    /\ s_pc' = "write"
    /\ UNCHANGED << speaker_mapping, lname_tbl, speaker_lname_mapping, article_text,
                    article_split, speaker_ixs, speech_ixs, undefined_ixs,
                    parsed_fpath, json_files, parsed_index >>

\* lines 104-106
RemoveSpeaker ==
    /\ s_pc = "filter"
    /\ article_speeches' = SelectSeq(article_speeches, NotTheSpeaker)
    /\ s_pc' = "write"
    /\ UNCHANGED << speaker_mapping, lname_tbl, speaker_lname_mapping, article_text,
                    article_split, speaker_ixs, speech_ixs, undefined_ixs,
                    parsed_fpath, json_files, parsed_index >>

\* lines 108-116
WriteJson ==
    /\ s_pc = "write"
    /\ json_files' = json_files \o
          << [path |-> OpFpathJson(ArticleFpath), content |-> article_speeches] >>
    /\ parsed_fpath' = OpFpathJson(ArticleFpath)
    /\ s_pc' = "returned"
    /\ UNCHANGED << speaker_mapping, lname_tbl, speaker_lname_mapping, article_text,
                    article_split, speaker_ixs, speech_ixs, undefined_ixs,
                    article_speeches, parsed_index >>

\* lines 127-129
SaveParsedIndex ==
    /\ s_pc = "returned"
    /\ parsed_index' = << parsed_fpath >>
    /\ s_pc' = "done"
    /\ UNCHANGED << speaker_mapping, lname_tbl, speaker_lname_mapping, article_text,
                    article_split, speaker_ixs, speech_ixs, undefined_ixs,
                    article_speeches, parsed_fpath, json_files >>

\* ---- inputs ----
Ab == << "A", "b" >>
AB == << "A", "B" >>
Cd == << "C", "d" >>

\* the pieces article texts are put together from
Chunks ==
    { TheSPEAKER,
      << "M", "r", ".", " ", "A", "B" >>,
      << "M", "s", ".", " ", "A", "B" >>,
      << "M", "i", "s", "s", " ", "A", "B" >>,
      MrDot,
      << "A" >>,
      << ".", " ", "x" >>,
      << "\n" >> }

Texts == { Concat(cs) : cs \in SeqsUpTo(Chunks, MaxChunks) }

\* the rosters the Segmenter runs are checked with
SegRosters ==
    { << RosterRow(Ab, "House", "R") >>,
      << RosterRow(Ab, "House", "R"), RosterRow(Ab, "House", "D") >> }

\* the rows a roster file can hold
RosterRows ==
    { RosterRow(n, c, p) : n \in {Ab, AB, Cd}, c \in {"House", "Senate"}, p \in {"R", "D"} }

\* segments a hand-made split is put together from
SplitSegments ==
    { << >>,
      << ".", " ", "x" >>,
      << "M", "r", ".", " ", "A", "B" >>,
      TheSPEAKER }

SyntheticSplits == SeqsUpTo(SplitSegments, MaxSplitLen) \ { << >> }

SegmenterIdle ==
    /\ s_pc = "idle"
    /\ speaker_mapping = << >>
    /\ lname_tbl = << >>
    /\ speaker_lname_mapping = << >>
    /\ article_text = << >>
    /\ article_split = << >>
    /\ speaker_ixs = << >>
    /\ speech_ixs = << >>
    /\ undefined_ixs = << >>
    /\ article_speeches = << >>
    /\ parsed_fpath = << >>
    /\ json_files = << >>
    /\ parsed_index = << >>

CollectorIdle ==
    /\ c_pc = "idle"
    /\ vol_no = starting_volno
    /\ vol_response = [next |-> FALSE, dailyCongressionalRecord |-> << >>]
    /\ page = 1
    /\ iss_ix = 1
    /\ issue_no = Unbound
    /\ issue_info = << >>
    /\ vol_articles = << >>
    /\ records_ix = << >>
    /\ ret = "none"
    /\ issue_response = [next |-> FALSE, articles |-> << >>]
    /\ issue_dta = << >>
    /\ pg_no = 1
    /\ err = "none"
    /\ nIssues = 0
    /\ nNext = 0
    /\ called = << >>
    /\ pages_seen = << >>

vars == << colVars, fetVars, segVars >>

(***************************************************************************)
(* The Collector as a program.                                             *)
(***************************************************************************)
InitCollectorRun == InitCollector /\ FetcherIdle /\ SegmenterIdle

NextCollector ==
    \/ VolRequest /\ UNCHANGED << fetVars, segVars >>
    \/ EnterPage /\ UNCHANGED << fetVars, segVars >>
    \/ EnterLastPage /\ UNCHANGED << fetVars, segVars >>
    \/ IssueStart /\ UNCHANGED << fetVars, segVars >>
    \/ ProcIssuePage /\ UNCHANGED << fetVars, segVars >>
    \/ ProcIssueLastPage /\ UNCHANGED << fetVars, segVars >>
    \/ IssueDone /\ UNCHANGED << fetVars, segVars >>
    \/ LastIssueDone /\ UNCHANGED << fetVars, segVars >>
    \/ NextPage /\ UNCHANGED << fetVars, segVars >>
    \/ NextVolume /\ UNCHANGED << fetVars, segVars >>
    \/ LoadDB /\ UNCHANGED << fetVars, segVars >>

SpecCollector == InitCollectorRun /\ [][NextCollector]_vars

(***************************************************************************)
(* The Fetcher as a program: it starts from a table of at most MaxRows     *)
(* locator rows.                                                           *)
(***************************************************************************)
InitFetcher ==
    /\ CollectorIdle
    /\ SegmenterIdle
    /\ f_pc = "start"
    /\ record_df \in SeqsUpTo(Locators, MaxRows)
    /\ req_articles = << >>
    /\ folders = { }
    /\ files = << >>
    /\ art_ix = 1
    /\ article_fpath = << >>
    /\ index_csv = << >>
    /\ f_err = "none"
    /\ fetch_failed = << >>

NextFetcher ==
    \/ ReadAndFilter /\ UNCHANGED << colVars, segVars >>
    \/ InitSession /\ UNCHANGED << colVars, segVars >>
    \/ ProcArticle /\ UNCHANGED << colVars, segVars >>
    \/ SaveIndex /\ UNCHANGED << colVars, segVars >>

SpecFetcher == InitFetcher /\ [][NextFetcher]_vars

(***************************************************************************)
(* The Segmenter script as a program: the roster table is built, then      *)
(* parse_articles is applied to an article file.                           *)
(***************************************************************************)
SegmenterStart(rosters) ==
    /\ s_pc = "roster"
    /\ speaker_mapping \in rosters
    /\ lname_tbl = << >>
    /\ speaker_lname_mapping = << >>
    /\ article_text = << >>
    /\ article_split = << >>
    /\ speaker_ixs = << >>
    /\ speech_ixs = << >>
    /\ undefined_ixs = << >>
    /\ article_speeches = << >>
    /\ parsed_fpath = << >>
    /\ json_files = << >>
    /\ parsed_index = << >>

InitSegmenter == CollectorIdle /\ FetcherIdle /\ SegmenterStart(SegRosters)

NextSegmenter ==
    \/ SelectAndDropDuplicates /\ UNCHANGED << colVars, fetVars >>
    \/ CountLastNames /\ UNCHANGED << colVars, fetVars >>
    \/ RelabelAmbiguous /\ UNCHANGED << colVars, fetVars >>
    \/ BuildDict /\ UNCHANGED << colVars, fetVars >>
    \/ ReadAndSplit(Texts) /\ UNCHANGED << colVars, fetVars >>
    \/ Classify /\ UNCHANGED << colVars, fetVars >>
    \/ Validate /\ UNCHANGED << colVars, fetVars >>
    \/ BuildSpeeches /\ UNCHANGED << colVars, fetVars >>
    \/ RemoveSpeaker /\ UNCHANGED << colVars, fetVars >>
    \/ WriteJson /\ UNCHANGED << colVars, fetVars >>
    \/ SaveParsedIndex /\ UNCHANGED << colVars, fetVars >>

SpecSegmenter == InitSegmenter /\ [][NextSegmenter]_vars

(***************************************************************************)
(* The roster table alone, over every roster file of at most MaxRosterRows *)
(* rows.                                                                   *)
(***************************************************************************)
InitRoster ==
    CollectorIdle /\ FetcherIdle /\ SegmenterStart(SeqsUpTo(RosterRows, MaxRosterRows))

NextRoster ==
    \/ SelectAndDropDuplicates /\ UNCHANGED << colVars, fetVars >>
    \/ CountLastNames /\ UNCHANGED << colVars, fetVars >>
    \/ RelabelAmbiguous /\ UNCHANGED << colVars, fetVars >>
    \/ BuildDict /\ UNCHANGED << colVars, fetVars >>

SpecRoster == InitRoster /\ [][NextRoster]_vars

(***************************************************************************)
(* Classification and validation (lines 67-89) applied to hand-made splits *)
(* of at most MaxSplitLen segments.                                        *)
(***************************************************************************)
InitValidate ==
    /\ CollectorIdle
    /\ FetcherIdle
    /\ s_pc = "classify"
    /\ speaker_mapping = << >>
    /\ lname_tbl = << >>
    /\ speaker_lname_mapping = << >>
    /\ article_text = << >>
    /\ article_split \in SyntheticSplits
    /\ speaker_ixs = << >>
    /\ speech_ixs = << >>
    /\ undefined_ixs = << >>
    /\ article_speeches = << >>
    /\ parsed_fpath = << >>
    /\ json_files = << >>
    /\ parsed_index = << >>

NextValidate ==
    \/ Classify /\ UNCHANGED << colVars, fetVars >>
    \/ Validate /\ UNCHANGED << colVars, fetVars >>

SpecValidate == InitValidate /\ [][NextValidate]_vars

(***************************************************************************)
(* Claims about the Collector.                                             *)
(***************************************************************************)
ArticleCount(sections) ==
    SumSeq([s \in 1..Len(sections) |-> Len(sections[s].sectionArticles)])

\* number of entries that precede article a of section s of page p
EntriesBefore(pages, p, s) ==
    SumSeq([q \in 1..(p-1) |-> ArticleCount(pages[q])])
    + SumSeq([t \in 1..(s-1) |-> Len(pages[p][t].sectionArticles)])

\* C1: for every volume of the range, whatever the number N >= 1 of pages of its
\* listing, every issue of every page is passed to proc_issue exactly once and
\* the run reaches the database load (it does not end in an exception unless an
\* article lacks its Formatted Text).
C1_EveryIssueProcessedAndLoaded ==
    /\ (c_pc = "crashed" => err = "StopIteration")
    /\ (c_pc \in {"load", "done"} => called = [i \in 1..nIssues |-> i])

\* C2: when proc_issue returns, issue_dta holds one [section name, title, url]
\* entry per article of every section of every page fetched (the terminal page
\* included), each exactly once, in page order and inside a page in section and
\* article order; the url is the one of a Formatted Text representation.
C2_ProcIssueReturnsEveryArticleInOrder ==
    c_pc = "pi_ret" =>
        /\ Len(pages_seen) >= 1
        /\ Len(issue_dta) = SumSeq([p \in 1..Len(pages_seen) |-> ArticleCount(pages_seen[p])])
        /\ \A p \in 1..Len(pages_seen) :
             \A s \in 1..Len(pages_seen[p]) :
                \A a \in 1..Len(pages_seen[p][s].sectionArticles) :
                   LET art == pages_seen[p][s].sectionArticles[a]
                       e == issue_dta[EntriesBefore(pages_seen, p, s) + a]
                   IN /\ e[1] = pages_seen[p][s].name
                      /\ e[2] = art.title
                      /\ \E r \in 1..Len(art.text) :
                            art.text[r].type = FormattedText /\ art.text[r].url = e[3]

\* C2 witness: proc_issue returns from a three-page listing with entries
C2_Witness ==
    /\ c_pc = "pi_ret"
    /\ Len(pages_seen) = 3
    /\ Len(issue_dta) >= 5

\* some page fetched by the current proc_issue call has an article without
\* a Formatted Text representation
MissingTextServed ==
    \E p \in 1..Len(pages_seen) : PageRaises(pages_seen[p])

\* C9: once an article without a Formatted Text representation has been served,
\* the failure is not skipped: the page holding it is the one about to be
\* processed or the run has ended with the exception, the run never loads the
\* database, and records_ix holds no row of this run.
C9_MissingTextIsFatal ==
    MissingTextServed =>
        /\ c_pc \in {"pi_while", "crashed"}
        /\ (c_pc = "pi_while" => PageRaises(issue_response.articles))
        /\ (c_pc = "crashed" => err = "StopIteration" /\ ~ENABLED NextCollector)
        /\ records_ix \in PriorTables

\* C9 witness: the exception ends a run that had gathered rows from an earlier
\* issue of an earlier volume
C9_Witness ==
    /\ c_pc = "crashed"
    /\ err = "StopIteration"
    /\ MissingTextServed
    /\ vol_no > starting_volno
    /\ Len(vol_articles) > 0

(***************************************************************************)
(* Claims about the Fetcher.                                               *)
(***************************************************************************)
\* C8: when the fetch or the clean of an in-scope article fails, proc_article
\* returns the sentinel as the path and writes the sentinel as the content, the
\* batch goes on (the script never ends with an exception once the batch has
\* started), and the index written at the end has exactly one article_fpath per
\* in-scope row: the sentinel for a failed row, the row's own path otherwise.
C8_FailureYieldsSentinelAndBatchContinues ==
    /\ Len(article_fpath) = Len(fetch_failed)
    /\ Len(article_fpath) = art_ix - 1
    /\ (f_pc = "crashed" => fetch_failed = << >>)
    /\ \A i \in 1..Len(article_fpath) :
         IF fetch_failed[i]
         THEN /\ article_fpath[i] = ErrorWhenPulling
              /\ \E k \in 1..Len(files) :
                   files[k] = [path |-> ErrorWhenPulling, content |-> ErrorWhenPulling]
         ELSE article_fpath[i] = OpFpath(req_articles[i])
    /\ (f_pc = "done" =>
          /\ Len(index_csv) = Len(req_articles)
          /\ req_articles = SelectSeq(record_df, InScope)
          /\ \A i \in 1..Len(index_csv) :
               /\ index_csv[i].row = req_articles[i]
               /\ index_csv[i].article_fpath = article_fpath[i])
    /\ (f_pc = "apply" /\ art_ix <= Len(req_articles) => ENABLED ProcArticle)

\* C8 witness: the index is written after a batch whose first article failed
\* and whose later article was fetched
C8_Witness ==
    /\ f_pc = "done"
    /\ Len(index_csv) >= 2
    /\ fetch_failed[1]
    /\ ~fetch_failed[2]

(***************************************************************************)
(* Claims about the Segmenter.                                             *)
(***************************************************************************)
ChecksOn(split) ==
    Checks(split, SpeakerIxs(split), SpeechIxs(SpeakerIxs(split)),
           UndefinedIxs(split, SpeakerIxs(split), SpeechIxs(SpeakerIxs(split))))

CheckNames == { "ix_len", "speech", "speaker", "undefined", "correspond" }

ErrOf(c) ==
    CASE c = "ix_len" -> ErrSplitting
      [] c = "speech" -> ErrSpeech
      [] c = "speaker" -> ErrSpeaker
      [] c = "undefined" -> ErrUndefined
      [] c = "correspond" -> ErrCorrespond

\* the split violates check c and no other check
ViolatesOnly(split, c) ==
    \A d \in CheckNames : ChecksOn(split)[d] <=> (d # c)

Classified == s_pc \in {"validate", "build", "filter", "write", "returned", "done"}
Validated == s_pc \in {"build", "filter", "write", "returned", "done"}

\* C3 (as stated): for each of the five checks there is a split that violates
\* exactly that check, and on it the outcome is exactly that check's failure string.
C3_EachCheckViolableAlone ==
    Validated =>
        \A c \in CheckNames :
            \E split \in SyntheticSplits :
                ViolatesOnly(split, c) /\ FailureOf(ChecksOn(split)) = ErrOf(c)

\* C3 (amended): on every split, the speaker-range, undefined-range and count
\* checks hold; a split that violates the speech-range check violates the
\* index-count check too; so the only failure string ever returned is the one
\* of the index-count check, returned exactly when that check is violated.
C3_OnlyIndexCountCheckFails ==
    Classified =>
        /\ speaker_ixs_check
        /\ undefined_ixs_check
        /\ speaker_speech_correspond_check
        /\ (~speech_ixs_check => ~ix_len_check)
        /\ (s_pc = "returned" => ~ix_len_check /\ parsed_fpath = ErrSplitting)
        /\ (s_pc = "build" => ix_len_check /\ speech_ixs_check /\ parsed_fpath = NoFailure)

\* C3 witnesses: a split that violates the index-count check alone has been
\* answered with that check's string
C3_Witness ==
    /\ s_pc = "returned"
    /\ ViolatesOnly(article_split, "ix_len")
    /\ parsed_fpath = ErrSplitting

\* number of speaker markers that are the presiding officer's
SpeakerMarkerCount ==
    Cardinality({ k \in 1..Len(speaker_ixs) : At(article_split, speaker_ixs[k]) = TheSPEAKER })

Returned == s_pc \in {"returned", "done"}

\* C4: parse_articles on an article text succeeds (it returns the output path,
\* under which the records are written) and the number of records is the number
\* of speaker markers minus one when exactly one marker is "The SPEAKER", and the
\* number of speaker markers when none is.
C4_SpeechCountMatchesMarkers ==
    Returned =>
        /\ parsed_fpath \notin ValidationErrors
        /\ parsed_fpath = OpFpathJson(ArticleFpath)
        /\ json_files = << [path |-> parsed_fpath, content |-> article_speeches] >>
        /\ Len(speaker_ixs) = Len(speech_ixs)
        /\ (SpeakerMarkerCount = 1 => Len(article_speeches) = Len(speaker_ixs) - 1)
        /\ (SpeakerMarkerCount = 0 => Len(article_speeches) = Len(speaker_ixs))

\* C4 witness: a text with three markers, one of them "The SPEAKER", was parsed
C4_Witness ==
    /\ Returned
    /\ Len(speaker_ixs) = 3
    /\ SpeakerMarkerCount = 1
    /\ Len(article_speeches) = 2

\* the text that is split holds no match of the boundary pattern
NoBoundaryMatch == ~ReSearch(ReSubSpaces(article_text))

Split == s_pc \in {"classify", "validate", "build", "filter", "write", "returned", "done"}

\* C5: for an article text without any match of the boundary pattern (in the
\* whitespace-collapsed text that is split), the split has one segment, its
\* index is undefined, there is no speaker and no speech index, the five checks
\* pass and the result written is the empty sequence of records.
C5_NoMatchYieldsEmptyResult ==
    Split /\ NoBoundaryMatch =>
        /\ Len(article_split) = 1
        /\ article_split = << ReSubSpaces(article_text) >>
        /\ (Classified =>
              /\ speaker_ixs = << >>
              /\ speech_ixs = << >>
              /\ undefined_ixs = << 0 >>
              /\ ix_len_check
              /\ speech_ixs_check
              /\ speaker_ixs_check
              /\ undefined_ixs_check
              /\ speaker_speech_correspond_check)
        /\ (Validated => parsed_fpath \notin ValidationErrors)
        /\ (Returned =>
              /\ article_speeches = << >>
              /\ json_files = << [path |-> OpFpathJson(ArticleFpath), content |-> << >>] >>)

\* C5 witness: a non-empty text without a match has been parsed
C5_Witness ==
    /\ s_pc = "done"
    /\ NoBoundaryMatch
    /\ Len(article_text) >= 5
    /\ article_speeches = << >>

\* the honorific a speaker marker starts with, or << >>
HonorificOf(speaker) ==
    IF HasPrefixAt(speaker, 1, MrDot) THEN MrDot
    ELSE IF HasPrefixAt(speaker, 1, MsDot) THEN MsDot
    ELSE IF HasPrefixAt(speaker, 1, Miss) THEN Miss
    ELSE << >>

\* the lowercased surname of a titled marker
SurnameOf(speaker) ==
    Strip(Lower(SubSeq(speaker, Len(HonorificOf(speaker)) + 1, Len(speaker))))

Built == s_pc \in {"filter", "write", "returned", "done"}

\* C7: for every record whose speaker is a titled surname (Mr., Ms. or Miss
\* followed by the uppercase name), the party is the roster mapping's value for
\* the lowercased surname when the surname is a key, and "Not Found" only when
\* it is not.
C7_PartyIsRosterValueOfSurname ==
    Built =>
        \A k \in 1..Len(article_speeches) :
            LET r == article_speeches[k] IN
            HonorificOf(r.speaker) # << >> =>
                r.party = IF SurnameOf(r.speaker) \in DOMAIN speaker_lname_mapping
                          THEN speaker_lname_mapping[SurnameOf(r.speaker)]
                          ELSE NotFound

\* the speaker markers that are not the presiding officer's, in index order
KeptPairs ==
    SelectSeq([k \in 1..Len(speaker_ixs) |-> k],
              LAMBDA k : At(article_split, speaker_ixs[k]) # TheSPEAKER)

Filtered == s_pc \in {"write", "returned", "done"}

\* C10: in a successful result no record's speaker is "The SPEAKER", every
\* other (speaker, speech) pair of the split is emitted, and the records are in
\* document order (ascending speaker index); the presiding officer's segments
\* keep their speaker and speech indices in the classification.
C10_SpeakerDroppedOthersInOrder ==
    /\ Classified =>
         /\ \A i \in IndexRange(article_split) :
              At(article_split, i) = TheSPEAKER =>
                 \E k \in 1..Len(speaker_ixs) :
                    speaker_ixs[k] = i /\ speech_ixs[k] = i + 1
         /\ \A k \in 1..(Len(speaker_ixs) - 1) : speaker_ixs[k] < speaker_ixs[k + 1]
    /\ Filtered =>
         /\ \A j \in 1..Len(article_speeches) : article_speeches[j].speaker # TheSPEAKER
         /\ Len(article_speeches) = Len(KeptPairs)
         /\ \A j \in 1..Len(KeptPairs) :
              /\ article_speeches[j].speaker = At(article_split, speaker_ixs[KeptPairs[j]])
              /\ \E nlp_ok \in BOOLEAN :
                   article_speeches[j].speech =
                      proc_speech(At(article_split, speaker_ixs[KeptPairs[j]] + 1), nlp_ok)
    /\ (Returned => parsed_fpath \notin ValidationErrors)

\* C10 witness: two records were emitted around a dropped "The SPEAKER" pair
C10_Witness ==
    /\ s_pc = "done"
    /\ Len(speaker_ixs) = 3
    /\ At(article_split, speaker_ixs[2]) = TheSPEAKER
    /\ Len(article_speeches) = 2
    /\ article_speeches[1].speaker # article_speeches[2].speaker

(***************************************************************************)
(* Claims about the roster lookup.                                         *)
(***************************************************************************)
\* rows of the file with the last name and chamber of row i
RawGroup(i) ==
    { j \in 1..Len(speaker_mapping) :
        /\ speaker_mapping[j].last_name = speaker_mapping[i].last_name
        /\ speaker_mapping[j].chamber = speaker_mapping[i].chamber }

\* parties that occur in the file for a last name and chamber
PartiesOf(n, c) ==
    { speaker_mapping[j].partyName : j \in { j \in 1..Len(speaker_mapping) :
        speaker_mapping[j].last_name = n /\ speaker_mapping[j].chamber = c } }

\* C6 (as stated): the rows of the file are grouped by (last_name, chamber);
\* a group with more than one row has party "Ambiguous" and the lookup for the
\* lowercased last name yields "Ambiguous"; a group of one row keeps its party.
C6_GroupsOfSeveralRowsAreAmbiguous ==
    s_pc = "read" =>
        \A i \in 1..Len(speaker_mapping) :
            IF Cardinality(RawGroup(i)) > 1
            THEN /\ speaker_lname_mapping[Lower(speaker_mapping[i].last_name)] = Ambiguous
                 /\ \A t \in 1..Len(lname_tbl) :
                      (/\ lname_tbl[t].last_name = speaker_mapping[i].last_name
                       /\ lname_tbl[t].chamber = speaker_mapping[i].chamber)
                      => lname_tbl[t].partyName = Ambiguous
            ELSE \E t \in 1..Len(lname_tbl) :
                      /\ lname_tbl[t].last_name = speaker_mapping[i].last_name
                      /\ lname_tbl[t].chamber = speaker_mapping[i].chamber
                      /\ lname_tbl[t].partyName = speaker_mapping[i].partyName

\* C6 (amended): identical rows count once. A (last_name, chamber) group has
\* party "Ambiguous" in all its rows exactly when the file gives it more than
\* one party, and keeps its party otherwise; the lookup for a lowercased last
\* name yields the party (relabelled so) of the last row with that lowercased
\* last name.
C6_GroupsOfSeveralPartiesAreAmbiguous ==
    /\ s_pc \in {"dict", "read"} =>
         /\ \A i \in 1..Len(speaker_mapping) :
              \E t \in 1..Len(lname_tbl) :
                 /\ lname_tbl[t].last_name = speaker_mapping[i].last_name
                 /\ lname_tbl[t].chamber = speaker_mapping[i].chamber
         /\ \A t \in 1..Len(lname_tbl) :
              LET parties == PartiesOf(lname_tbl[t].last_name, lname_tbl[t].chamber) IN
              /\ parties # { }
              /\ IF Cardinality(parties) > 1
                 THEN lname_tbl[t].partyName = Ambiguous
                 ELSE lname_tbl[t].partyName \in parties
    /\ s_pc = "read" =>
         /\ DOMAIN speaker_lname_mapping =
               { Lower(speaker_mapping[i].last_name) : i \in 1..Len(speaker_mapping) }
         /\ \A t \in 1..Len(lname_tbl) :
              (\A u \in (t+1)..Len(lname_tbl) :
                  Lower(lname_tbl[u].last_name) # Lower(lname_tbl[t].last_name))
              => speaker_lname_mapping[Lower(lname_tbl[t].last_name)] = lname_tbl[t].partyName

\* C6 witness: a group with two parties made the lookup "Ambiguous", next to a
\* group of one row that kept its party
C6_Witness ==
    /\ s_pc = "read"
    /\ Cardinality(PartiesOf(Ab, "House")) = 2
    /\ speaker_lname_mapping[Lower(Ab)] = Ambiguous
    /\ Cd \in { speaker_mapping[i].last_name : i \in 1..Len(speaker_mapping) }
    /\ speaker_lname_mapping[Lower(Cd)] \in {"R", "D"}

(***************************************************************************)
(* Claims about the partition of the split.                                *)
(***************************************************************************)
OddIndices(split) == { i \in IndexRange(split) : i % 2 = 1 }

\* C11: for every article text, the segments of the split that match the
\* boundary pattern are exactly those at the odd indices (each of them a whole
\* match); so the speaker, speech and undefined index lists are pairwise
\* disjoint, hold every index of the split exactly once between them, and each
\* speech index is the index right after its speaker index and lies inside
\* the split's index range.
C11_MatchesAtOddIndicesPartition ==
    Classified =>
        /\ Len(article_split) % 2 = 1
        /\ \A i \in IndexRange(article_split) :
              ReSearch(At(article_split, i)) <=> i \in OddIndices(article_split)
        /\ \A i \in OddIndices(article_split) :
              MatchLenAt(At(article_split, i), 1) = Len(At(article_split, i))
        /\ Range(speaker_ixs) = OddIndices(article_split)
        /\ Range(speaker_ixs) \cap Range(speech_ixs) = { }
        /\ Range(speaker_ixs) \cap Range(undefined_ixs) = { }
        /\ Range(speech_ixs) \cap Range(undefined_ixs) = { }
        /\ Range(speaker_ixs) \cup Range(speech_ixs) \cup Range(undefined_ixs)
              = IndexRange(article_split)
        /\ Cardinality(Range(speaker_ixs)) = Len(speaker_ixs)
        /\ Cardinality(Range(speech_ixs)) = Len(speech_ixs)
        /\ Cardinality(Range(undefined_ixs)) = Len(undefined_ixs)
        /\ Len(speech_ixs) = Len(speaker_ixs)
        /\ \A k \in 1..Len(speaker_ixs) :
              /\ speech_ixs[k] = speaker_ixs[k] + 1
              /\ speech_ixs[k] \in IndexRange(article_split)

\* C11 witness: a text with two boundary matches, the second one at the very
\* end of the text, has been classified
C11_Witness ==
    /\ Classified
    /\ Len(article_split) = 5
    /\ At(article_split, 4) = << >>
    /\ speaker_ixs = << 1, 3 >>
    /\ speech_ixs = << 2, 4 >>
    /\ undefined_ixs = << 0 >>

=============================================================================
